---- MODULE Spec2Model ----
(***************************************************************************)
(* Identity and session management of the Canary Ride client portal        *)
(* backend: AuthService (booking login, magic links, JWT access/refresh    *)
(* tokens with whitelist and blacklist), the Booqable directory client it  *)
(* calls, the email dispatcher, the HTTP error mapping, the TTL cache      *)
(* CacheService, the login of the standalone server with its booking       *)
(* cache, and the browser's ApiService with its 401 handling.              *)
(*                                                                         *)
(* Request handlers run to completion between their awaits.  A handler     *)
(* whose awaits only read the external directory is one action; a handler  *)
(* that reads the shared stores before an await and writes them after it   *)
(* is two actions (Begin/Finish) and occupies a call slot in between.      *)
(***************************************************************************)
EXTENDS Integers, Sequences, FiniteSets, TLC

(***************************************************************************)
(* Bounds of the model (not program constants).                            *)
(***************************************************************************)
MaxCalls == 2
MaxLinks == 1
MaxBlacklist == 2
MaxFactory == 2
MaxRefresh == 4

Procs == 1..MaxCalls

(***************************************************************************)
(* Program constants.  The clock is in milliseconds (Date.now()); JWT      *)
(* lifetimes are in seconds, as jsonwebtoken keeps them.                   *)
(***************************************************************************)
MAGIC_LINK_EXPIRES_IN == 15 * 60 * 1000
JWT_EXPIRES_IN == 24 * 60 * 60
REFRESH_EXPIRES_IN == 7 * 24 * 60 * 60

\* The instants at which the model observes the clock.  For magic links: the
\* start, exactly 15 minutes later and one millisecond after that (the same
\* JWT second).  For sessions: the start, 24 hours and 7 days later.
MagicInstants == {0, MAGIC_LINK_EXPIRES_IN, MAGIC_LINK_EXPIRES_IN + 1}
SessionInstants == {0, JWT_EXPIRES_IN * 1000, REFRESH_EXPIRES_IN * 1000}

\* jsonwebtoken: iat = Math.floor(Date.now() / 1000)
Seconds(ms) == ms \div 1000

(***************************************************************************)
(* The external Booqable directory (read-only for this subsystem).         *)
(***************************************************************************)
Customers ==
  { [id |-> "c1", email |-> "maria@x", first_name |-> "Maria", last_name |-> "O"],
    [id |-> "c2", email |-> "bob@x",   first_name |-> "Bob",   last_name |-> ""] }

Orders ==
  { [number |-> "6004", customer_id |-> "c1"],
    [number |-> "6005", customer_id |-> "c2"] }

BookingNumbers == {"6004", "9999"}
Emails == {"maria@x", "MARIA@x", "bob@x", "nobody@x"}

\* String.prototype.toLowerCase on the emails of the model
toLowerCase(e) == IF e = "MARIA@x" THEN "maria@x" ELSE e

\* `${first_name} ${last_name}`.trim()
FullName(c) ==
  IF c.last_name = "" THEN c.first_name
  ELSE IF c.first_name = "" THEN c.last_name
  ELSE c.first_name \o " " \o c.last_name

(***************************************************************************)
(* Outcomes of one HTTP call to the directory, and the response            *)
(* interceptor that turns a failed call into an AppError.                  *)
(***************************************************************************)
FaultKinds == {"http401", "http404", "http5xx", "noresponse"}
NoFault == [at |-> 0, kind |-> "none"]
Faults(n) == {NoFault} \cup [at : 1..n, kind : FaultKinds]

Err(status, code) == [status |-> status, code |-> code]
OK == Err(200, "OK")
PENDING == Err(0, "PENDING")

Interceptor(kind) ==
  IF kind = "http401" THEN Err(500, "BOOQABLE_UNAUTHORIZED")
  ELSE IF kind = "http404" THEN Err(404, "BOOQABLE_NOT_FOUND")
  ELSE IF kind = "http5xx" THEN Err(503, "BOOQABLE_UNAVAILABLE")
  ELSE Err(500, "BOOQABLE_ERROR")

\* A directory lookup yields [err, val]: err = OK and val a set with the
\* record found (empty when there is none), or err the AppError thrown.
Found(c) == [err |-> OK, val |-> {c}]
NotFound == [err |-> OK, val |-> {}]
Thrown(e) == [err |-> e, val |-> {}]

\* GET /orders?filter[number]=n, first element of data
findOrderByNumber(n, fault, at) ==
  IF fault.at = at THEN Thrown(Interceptor(fault.kind))
  ELSE [err |-> OK, val |-> {o \in Orders : o.number = n}]

getCustomerById(id, fault, at) ==
  IF fault.at = at THEN Thrown(Interceptor(fault.kind))
  ELSE [err |-> OK, val |-> {c \in Customers : c.id = id}]

\* GET /customers?filter[email]=e.  Whether the directory's filter ignores
\* letter case is not decided by this code base: ci is chosen by the caller
\* of the model's action.
getCustomerByEmail(e, ci, fault, at) ==
  IF fault.at = at THEN Thrown(Interceptor(fault.kind))
  ELSE [err |-> OK,
        val |-> {c \in Customers :
                   \/ c.email = e
                   \/ ci /\ toLowerCase(c.email) = toLowerCase(e)}]

getCustomerBookings(id, fault, at) ==
  IF fault.at = at THEN Thrown(Interceptor(fault.kind))
  ELSE [err |-> OK, val |-> {o \in Orders : o.customer_id = id}]

\* verifyBooking without the comparison of the customer's email
verifyBooking_NoEmailCheck(bookingNumber, email, fault) ==
  LET orders == findOrderByNumber(bookingNumber, fault, 1) IN
  IF orders.err # OK THEN orders
  ELSE IF orders.val = {} THEN NotFound
  ELSE LET order == CHOOSE o \in orders.val : TRUE
           customer == getCustomerById(order.customer_id, fault, 2) IN
       IF customer.err # OK THEN customer
       ELSE IF customer.val = {} THEN NotFound
       ELSE Found(order)

\* BooqableService.verifyBooking: directory calls 1 (orders) and 2 (customer);
\* fetchLinesByOrderId swallows its own errors.
verifyBooking(bookingNumber, email, fault) ==
  LET orders == findOrderByNumber(bookingNumber, fault, 1) IN
  IF orders.err # OK THEN orders
  ELSE IF orders.val = {} THEN NotFound
  ELSE LET order == CHOOSE o \in orders.val : TRUE
           customer == getCustomerById(order.customer_id, fault, 2) IN
       IF customer.err # OK THEN customer
       ELSE IF customer.val = {} THEN NotFound
       ELSE LET c == CHOOSE x \in customer.val : TRUE IN
            IF toLowerCase(c.email) # toLowerCase(email) THEN NotFound
            ELSE Found(order)

(***************************************************************************)
(* Token strings.  A JWT signed with HS256 is a function of its payload    *)
(* and the secret, so a token string is modelled by its payload; signed    *)
(* says whether the signature is the one JWT_SECRET gives.                 *)
(***************************************************************************)
\* refreshToken is the payload field of that name that logout looks for: the
\* empty set when the payload has no such field, else the one string in it.
Tok(type, customerId, email, name, iat, signed) ==
  [type |-> type, customerId |-> customerId, email |-> email, name |-> name,
   iat |-> iat, signed |-> signed, refreshToken |-> {}]

NoTok == Tok(NoFault, "", "", "", 0, FALSE)
Malformed == Tok("malformed", "", "", "", 0, FALSE)
Forged == Tok("access", "c1", "maria@x", "Maria O", 0, FALSE)
\* an unsigned token whose payload names a refresh token string
ForgedCarrying(rt) == [Forged EXCEPT !.refreshToken = {rt}]
NoTokens == [accessToken |-> NoTok, refreshToken |-> NoTok]

\* exp claim written by jwt.sign: iat + expiresIn
Exp(tok) ==
  IF tok.type = "refresh" THEN tok.iat + REFRESH_EXPIRES_IN
  ELSE tok.iat + JWT_EXPIRES_IN

\* jwt.verify(token, JWT_SECRET): "ok", "TokenExpiredError" or
\* "JsonWebTokenError" (malformed string or bad signature)
jwtVerify(tok, nowMs) ==
  IF tok.type \notin {"access", "refresh"} \/ ~tok.signed THEN "JsonWebTokenError"
  ELSE IF Seconds(nowMs) >= Exp(tok) THEN "TokenExpiredError"
  ELSE "ok"

CustomerData(c) == [id |-> c.id, email |-> c.email, name |-> FullName(c)]

\* The pair generateTokens signs for a customer at a given time
SignedPair(customer, nowMs) ==
  [accessToken |-> Tok("access", customer.id, customer.email, customer.name,
                       Seconds(nowMs), TRUE),
   refreshToken |-> Tok("refresh", customer.id, "", "", Seconds(nowMs), TRUE)]

\* jwt.decode(token): the payload without any verification, null (the empty
\* set here) when the string is not a JWT
jwtDecode(tok) == IF tok.type \in {"access", "refresh"} THEN {tok} ELSE {}

(***************************************************************************)
(* State.                                                                  *)
(***************************************************************************)
VARIABLES
  now,                \* Date.now(), in ms
  magicLinks,         \* Map token -> {email, expiresAt}
  refreshTokens,      \* Set of whitelisted refresh token strings
  blacklistedTokens,  \* Set of revoked token strings
  calls,              \* the handler invocations suspended at an await
  created,            \* history: the magic links created so far, in order
  outbox,             \* history: the mails handed to the dispatcher
  issued,             \* history: token strings returned to callers
  usedMagic,          \* history: magic links redeemed successfully
  consumedRT,         \* history: refresh tokens a refresh returned a pair for
  cache,              \* CacheService: Map key -> {data, timestamp, ttl}
  cacheCalls,         \* the getOrSet invocations suspended at await factory()
  factoryCalls,       \* history: per key, how often a factory was invoked
  bookingCache,       \* standalone server: Map key -> {booking, timestamp}
  client,             \* the browser's ApiService and its localStorage
  resp                \* the response produced by the last step

stores == <<magicLinks, refreshTokens, blacklistedTokens>>
cacheVars == <<cache, cacheCalls, factoryCalls>>
\* the state outside AuthService and CacheService
outerVars == <<bookingCache, client>>
vars == <<now, magicLinks, refreshTokens, blacklistedTokens, calls, created,
          outbox, issued, usedMagic, consumedRT, cache, cacheCalls,
          factoryCalls, bookingCache, client, resp>>

Idle == [pc |-> "idle", ml |-> 0, email |-> "", rt |-> NoTok, beaten |-> FALSE,
         late |-> FALSE]

\* the last response was a failed refresh of this token; the response to
\* a refresh that passed the checks of its first part carries it as data
JustFailed(token) ==
  /\ resp.op \in {"refreshTokenBegin", "refreshToken"}
  /\ resp.arg = token
  /\ resp.err = Err(401, "INVALID_REFRESH_TOKEN")

\* One response: the operation, its argument, the directory fault injected
\* into the call (which of its directory calls fails, and how), the error
\* thrown (OK when none), the tokens returned, and two facts about the call:
\* beaten, a call that overlapped it on the same token returned a pair first;
\* late, it was invoked after that token had been redeemed successfully.
\* data is what the response carries besides tokens (NoData when nothing).
NoData == "none"

Resp(op, arg, fault, err, tokens, beaten, late) ==
  [op |-> op, arg |-> arg, fault |-> fault, err |-> err, tokens |-> tokens,
   beaten |-> beaten, late |-> late, data |-> NoData]

\* the keys, values and ttl arguments the cache is exercised with; an
\* optional argument is the empty set when it is not supplied
CacheKeys == {"k1", "k2"}
null == "null"
CacheValues == {"v1", "v2", null}
TtlArgs == {{}, {0}, {1000}}

\* the browser client with nothing in localStorage and no request under
\* way.  inflight is the request on the wire (kind "none" when there is
\* none) with its config's _retry flag and the bearer token the request
\* interceptor attached; awaiting are the requests whose
\* error handlers wait for the answer to a refresh call, innermost first;
\* stored says whether localStorage holds a refresh token, authToken which
\* bearer token it holds ("none", the one of the login, or a refreshed one);
\* refreshCalls and retries count, for the current original request, the
\* calls of the refresh endpoint and the re-sent original requests.
NoRequest == [kind |-> "none", retry |-> FALSE, bearer |-> "none"]

ClientIdle ==
  [inflight |-> NoRequest, awaiting |-> <<>>, stored |-> FALSE,
   authToken |-> "none", refreshCalls |-> 0, retries |-> 0]

CacheIdle == [pc |-> "idle", key |-> "", ttl |-> {}, beaten |-> FALSE]

Init ==
  /\ now = 0
  /\ magicLinks = <<>>
  /\ refreshTokens = {}
  /\ blacklistedTokens = {}
  /\ calls = [p \in Procs |-> Idle]
  /\ created = <<>>
  /\ outbox = {}
  /\ issued = {}
  /\ usedMagic = {}
  /\ consumedRT = {}
  /\ cache = <<>>
  /\ cacheCalls = [p \in Procs |-> CacheIdle]
  /\ factoryCalls = [k \in CacheKeys |-> 0]
  /\ bookingCache = <<>>
  /\ client = ClientIdle
  /\ resp = Resp("init", 0, NoFault, OK, NoTokens, FALSE, FALSE)

\* Map.delete
MapDelete(m, k) == [x \in DOMAIN m \ {k} |-> m[x]]
\* Map.set
MapSet(m, k, v) == [x \in DOMAIN m \cup {k} |-> IF x = k THEN v ELSE m[x]]

IdleProcs == {p \in Procs : calls[p].pc = "idle"}
\* the slot a new suspended call takes
FreeSlot == CHOOSE p \in IdleProcs : \A q \in IdleProcs : p <= q

\* strings a client can present as a bearer or refresh token
Presentable == issued \cup {Malformed, Forged}

(***************************************************************************)
(* AuthService.generateTokens: signs the pair and whitelists the refresh   *)
(* token; wl is the whitelist it adds to.                                  *)
(***************************************************************************)
generateTokens(customer, nowMs, wl) ==
  LET pair == SignedPair(customer, nowMs) IN
  [tokens |-> pair, refreshTokens |-> wl \cup {pair.refreshToken}]

(***************************************************************************)
(* AuthService.loginWithBooking                                            *)
(***************************************************************************)
LoginOutcome(bookingNumber, email, fault, ci) ==
  LET booking == verifyBooking(bookingNumber, email, fault) IN
  IF booking.err # OK THEN [err |-> booking.err, customer |-> {}]
  ELSE IF booking.val = {} THEN
    [err |-> Err(401, "INVALID_CREDENTIALS"), customer |-> {}]
  ELSE LET customer == getCustomerByEmail(email, ci, fault, 3) IN
    IF customer.err # OK THEN [err |-> customer.err, customer |-> {}]
    ELSE IF customer.val = {} THEN
      [err |-> Err(404, "CUSTOMER_NOT_FOUND"), customer |-> {}]
    ELSE LET c == CHOOSE x \in customer.val : TRUE
             bookings == getCustomerBookings(c.id, fault, 4) IN
      IF bookings.err # OK THEN [err |-> bookings.err, customer |-> {}]
      ELSE [err |-> OK, customer |-> {CustomerData(c)}]

LoginWithBooking(bookingNumber, email, fault, ci) ==
  LET out == LoginOutcome(bookingNumber, email, fault, ci)
      arg == [bookingNumber |-> bookingNumber, email |-> email] IN
  /\ IF out.err = OK
     THEN LET g == generateTokens(CHOOSE c \in out.customer : TRUE, now,
                                  refreshTokens) IN
          /\ refreshTokens' = g.refreshTokens
          /\ issued' = issued \cup {g.tokens.accessToken, g.tokens.refreshToken}
          /\ resp' = Resp("loginWithBooking", arg, NoFault, OK, g.tokens, FALSE, FALSE)
     ELSE /\ UNCHANGED <<refreshTokens, issued>>
          /\ resp' = Resp("loginWithBooking", arg, fault,
                          out.err, NoTokens, FALSE, FALSE)
  /\ UNCHANGED <<now, magicLinks, blacklistedTokens, calls, created, outbox,
                 usedMagic, consumedRT>>
  /\ UNCHANGED cacheVars
  /\ UNCHANGED outerVars

(***************************************************************************)
(* EmailService.sendEmail as called by sendMagicLink: the transport either *)
(* accepts the mail or throws, and sendEmail rethrows as EMAIL_SEND_FAILED.*)
(***************************************************************************)
sendEmail(mailOk) == IF mailOk THEN OK ELSE Err(500, "EMAIL_SEND_FAILED")

\* sendMagicLink storing and mailing the link before it looks at the customer
SendMagicLink_StoresBeforeLookup(email, fault, ci, mailOk) ==
  LET customer == getCustomerByEmail(email, ci, fault, 1)
      token == Len(created) + 1 IN
  /\ token <= MaxLinks
  /\ magicLinks' = MapSet(magicLinks, token,
       [email |-> email, expiresAt |-> now + MAGIC_LINK_EXPIRES_IN])
  /\ created' = Append(created, [email |-> email, at |-> now])
  /\ outbox' = outbox \cup {[to |-> email, token |-> token]}
  /\ resp' = Resp("sendMagicLink", email, fault,
                  IF customer.err # OK THEN customer.err ELSE sendEmail(mailOk),
                  NoTokens, FALSE, FALSE)
  /\ UNCHANGED <<now, refreshTokens, blacklistedTokens, calls, issued,
                 usedMagic, consumedRT>>
  /\ UNCHANGED cacheVars
  /\ UNCHANGED outerVars

(***************************************************************************)
(* AuthService.sendMagicLink behind POST /magic-link: the route answers    *)
(* 200 when the service returns and the error handler answers with the     *)
(* AppError's statusCode when it throws.  The token is 32 random bytes,    *)
(* modelled as the next unused link number.                                *)
(***************************************************************************)
SendMagicLink(email, fault, ci, mailOk) ==
  LET customer == getCustomerByEmail(email, ci, fault, 1)
      token == Len(created) + 1 IN
  /\ IF customer.err # OK
     THEN /\ resp' = Resp("sendMagicLink", email, fault,
                          customer.err, NoTokens, FALSE, FALSE)
          /\ UNCHANGED <<magicLinks, created, outbox>>
     ELSE IF customer.val = {}
     THEN /\ resp' = Resp("sendMagicLink", email, NoFault, OK, NoTokens, FALSE, FALSE)
          /\ UNCHANGED <<magicLinks, created, outbox>>
     ELSE /\ token <= MaxLinks
          /\ magicLinks' = MapSet(magicLinks, token,
               [email |-> email, expiresAt |-> now + MAGIC_LINK_EXPIRES_IN])
          /\ created' = Append(created, [email |-> email, at |-> now])
          /\ outbox' = outbox \cup {[to |-> email, token |-> token]}
          /\ resp' = Resp("sendMagicLink", email, NoFault, sendEmail(mailOk),
                          NoTokens, FALSE, FALSE)
  /\ UNCHANGED <<now, refreshTokens, blacklistedTokens, calls, issued,
                 usedMagic, consumedRT>>
  /\ UNCHANGED cacheVars
  /\ UNCHANGED outerVars

\* the expiry test one millisecond too lenient
magicLinkExpired_OffByOne(magicLink, nowMs) == magicLink.expiresAt + 1 < nowMs

\* magicLink.expiresAt < new Date()
magicLinkExpired(magicLink, nowMs) == magicLink.expiresAt < nowMs

(***************************************************************************)
(* AuthService.verifyMagicLink, up to its first await                      *)
(***************************************************************************)
VerifyMagicLinkBegin(token) ==
  /\ IF token \notin DOMAIN magicLinks
     THEN /\ resp' = Resp("verifyMagicLinkBegin", token, NoFault,
                          Err(401, "INVALID_MAGIC_LINK"), NoTokens, FALSE, FALSE)
          /\ UNCHANGED <<magicLinks, calls>>
     ELSE IF magicLinkExpired(magicLinks[token], now)
     THEN /\ magicLinks' = MapDelete(magicLinks, token)
          /\ resp' = Resp("verifyMagicLinkBegin", token, NoFault,
                          Err(401, "EXPIRED_MAGIC_LINK"), NoTokens, FALSE, FALSE)
          /\ UNCHANGED calls
     ELSE /\ IdleProcs # {}
          /\ calls' = [calls EXCEPT ![FreeSlot] =
               [Idle EXCEPT !.pc = "verifyMagicLink", !.ml = token,
                            !.email = magicLinks[token].email,
                            !.late = token \in usedMagic]]
          /\ resp' = Resp("verifyMagicLinkBegin", token, NoFault, PENDING,
                          NoTokens, FALSE, FALSE)
          /\ UNCHANGED magicLinks
  /\ UNCHANGED <<now, refreshTokens, blacklistedTokens, created, outbox,
                 issued, usedMagic, consumedRT>>
  /\ UNCHANGED cacheVars
  /\ UNCHANGED outerVars

\* the calls suspended on the same token as p are told that p returned a pair
Beat(p) ==
  [q \in Procs |->
     IF q = p THEN Idle
     ELSE IF /\ calls[q].pc = calls[p].pc
             /\ calls[q].ml = calls[p].ml
             /\ calls[q].rt = calls[p].rt
          THEN [calls[q] EXCEPT !.beaten = TRUE]
          ELSE calls[q]]

(***************************************************************************)
(* AuthService.verifyMagicLink, from the directory lookups to the return   *)
(***************************************************************************)
VerifyMagicLinkOutcome(email, fault, ci) ==
  LET customer == getCustomerByEmail(email, ci, fault, 1) IN
  IF customer.err # OK THEN [err |-> customer.err, customer |-> {}]
  ELSE IF customer.val = {} THEN
    [err |-> Err(404, "CUSTOMER_NOT_FOUND"), customer |-> {}]
  ELSE LET c == CHOOSE x \in customer.val : TRUE
           bookings == getCustomerBookings(c.id, fault, 2) IN
    IF bookings.err # OK THEN [err |-> bookings.err, customer |-> {}]
    ELSE [err |-> OK, customer |-> {CustomerData(c)}]

\* verifyMagicLink that never deletes the link it redeemed
VerifyMagicLinkFinish_KeepsLink(p, fault, ci) ==
  LET out == VerifyMagicLinkOutcome(calls[p].email, fault, ci)
      token == calls[p].ml IN
  /\ calls[p].pc = "verifyMagicLink"
  /\ IF out.err = OK
     THEN LET g == generateTokens(CHOOSE c \in out.customer : TRUE, now,
                                  refreshTokens) IN
          /\ refreshTokens' = g.refreshTokens
          /\ UNCHANGED magicLinks
          /\ issued' = issued \cup {g.tokens.accessToken, g.tokens.refreshToken}
          /\ usedMagic' = usedMagic \cup {token}
          /\ calls' = Beat(p)
          /\ resp' = Resp("verifyMagicLink", token, NoFault, OK, g.tokens,
                          calls[p].beaten,
                          calls[p].late)
     ELSE /\ calls' = [calls EXCEPT ![p] = Idle]
          /\ resp' = Resp("verifyMagicLink", token, fault,
                          out.err, NoTokens, calls[p].beaten,
                          calls[p].late)
          /\ UNCHANGED <<refreshTokens, magicLinks, issued, usedMagic>>
  /\ UNCHANGED <<now, blacklistedTokens, created, outbox, consumedRT>>
  /\ UNCHANGED cacheVars
  /\ UNCHANGED outerVars

\* verifyMagicLink that also deletes the link when the redemption fails
VerifyMagicLinkFinish_DeletesOnFailure(p, fault, ci) ==
  LET out == VerifyMagicLinkOutcome(calls[p].email, fault, ci)
      token == calls[p].ml IN
  /\ calls[p].pc = "verifyMagicLink"
  /\ IF out.err = OK
     THEN LET g == generateTokens(CHOOSE c \in out.customer : TRUE, now,
                                  refreshTokens) IN
          /\ refreshTokens' = g.refreshTokens
          /\ magicLinks' = MapDelete(magicLinks, token)
          /\ issued' = issued \cup {g.tokens.accessToken, g.tokens.refreshToken}
          /\ usedMagic' = usedMagic \cup {token}
          /\ calls' = Beat(p)
          /\ resp' = Resp("verifyMagicLink", token, NoFault, OK, g.tokens,
                          calls[p].beaten,
                          calls[p].late)
     ELSE /\ calls' = [calls EXCEPT ![p] = Idle]
          /\ resp' = Resp("verifyMagicLink", token, fault,
                          out.err, NoTokens, calls[p].beaten,
                          calls[p].late)
          /\ magicLinks' = MapDelete(magicLinks, token)
          /\ UNCHANGED <<refreshTokens, issued, usedMagic>>
  /\ UNCHANGED <<now, blacklistedTokens, created, outbox, consumedRT>>
  /\ UNCHANGED cacheVars
  /\ UNCHANGED outerVars

VerifyMagicLinkFinish(p, fault, ci) ==
  LET out == VerifyMagicLinkOutcome(calls[p].email, fault, ci)
      token == calls[p].ml IN
  /\ calls[p].pc = "verifyMagicLink"
  /\ IF out.err = OK
     THEN LET g == generateTokens(CHOOSE c \in out.customer : TRUE, now,
                                  refreshTokens) IN
          /\ refreshTokens' = g.refreshTokens
          /\ magicLinks' = MapDelete(magicLinks, token)
          /\ issued' = issued \cup {g.tokens.accessToken, g.tokens.refreshToken}
          /\ usedMagic' = usedMagic \cup {token}
          /\ calls' = Beat(p)
          /\ resp' = Resp("verifyMagicLink", token, NoFault, OK, g.tokens,
                          calls[p].beaten,
                          calls[p].late)
     ELSE /\ calls' = [calls EXCEPT ![p] = Idle]
          /\ resp' = Resp("verifyMagicLink", token, fault,
                          out.err, NoTokens, calls[p].beaten,
                          calls[p].late)
          /\ UNCHANGED <<refreshTokens, magicLinks, issued, usedMagic>>
  /\ UNCHANGED <<now, blacklistedTokens, created, outbox, consumedRT>>
  /\ UNCHANGED cacheVars
  /\ UNCHANGED outerVars

(***************************************************************************)
(* AuthService.cleanupExpiredMagicLinks                                    *)
(***************************************************************************)
CleanupExpiredMagicLinks ==
  /\ magicLinks' = [t \in {x \in DOMAIN magicLinks :
                             ~(magicLinks[x].expiresAt < now)} |-> magicLinks[t]]
  /\ resp' = Resp("cleanupExpiredMagicLinks", 0, NoFault, OK, NoTokens, FALSE, FALSE)
  /\ UNCHANGED <<now, refreshTokens, blacklistedTokens, calls, created, outbox,
                 issued, usedMagic, consumedRT>>
  /\ UNCHANGED cacheVars
  /\ UNCHANGED outerVars

(***************************************************************************)
(* AuthService.refreshToken, up to its await: whitelist check, jwt.verify. *)
(* Every error of this method is rethrown as INVALID_REFRESH_TOKEN.        *)
(***************************************************************************)
InvalidRefreshToken == Err(401, "INVALID_REFRESH_TOKEN")

\* refreshToken without the whitelist test
RefreshTokenBegin_NoWhitelistCheck(token) ==
  /\ IF jwtVerify(token, now) # "ok"
     THEN /\ resp' = Resp("refreshTokenBegin", token, NoFault,
                          InvalidRefreshToken, NoTokens, FALSE, FALSE)
          /\ UNCHANGED calls
     ELSE /\ IdleProcs # {}
          /\ calls' = [calls EXCEPT ![FreeSlot] =
               [Idle EXCEPT !.pc = "refreshToken", !.rt = token,
                            !.late = token \in consumedRT]]
          /\ resp' = [Resp("refreshTokenBegin", token, NoFault, PENDING,
                           NoTokens, FALSE, FALSE)
                        EXCEPT !.data = JustFailed(token)]
  /\ UNCHANGED <<now, magicLinks, refreshTokens, blacklistedTokens, created,
                 outbox, issued, usedMagic, consumedRT>>
  /\ UNCHANGED cacheVars
  /\ UNCHANGED outerVars

RefreshTokenBegin(token) ==
  /\ IF token \notin refreshTokens \/ jwtVerify(token, now) # "ok"
     THEN /\ resp' = Resp("refreshTokenBegin", token, NoFault,
                          InvalidRefreshToken, NoTokens, FALSE, FALSE)
          /\ UNCHANGED calls
     ELSE /\ IdleProcs # {}
          /\ calls' = [calls EXCEPT ![FreeSlot] =
               [Idle EXCEPT !.pc = "refreshToken", !.rt = token,
                            !.late = token \in consumedRT]]
          /\ resp' = [Resp("refreshTokenBegin", token, NoFault, PENDING,
                           NoTokens, FALSE, FALSE)
                        EXCEPT !.data = JustFailed(token)]
  /\ UNCHANGED <<now, magicLinks, refreshTokens, blacklistedTokens, created,
                 outbox, issued, usedMagic, consumedRT>>
  /\ UNCHANGED cacheVars
  /\ UNCHANGED outerVars

(***************************************************************************)
(* AuthService.refreshToken, from getCustomerById to the return            *)
(***************************************************************************)
RefreshTokenFinish(p, fault) ==
  LET token == calls[p].rt
      customer == getCustomerById(token.customerId, fault, 1) IN
  /\ calls[p].pc = "refreshToken"
  /\ IF customer.err = OK /\ customer.val # {}
     THEN LET c == CHOOSE x \in customer.val : TRUE
              g == generateTokens(CustomerData(c), now, refreshTokens) IN
          /\ refreshTokens' = g.refreshTokens \ {token}
          /\ issued' = issued \cup {g.tokens.accessToken, g.tokens.refreshToken}
          /\ consumedRT' = consumedRT \cup {token}
          /\ calls' = Beat(p)
          /\ resp' = Resp("refreshToken", token, NoFault, OK, g.tokens,
                          calls[p].beaten,
                          calls[p].late)
     ELSE /\ calls' = [calls EXCEPT ![p] = Idle]
          /\ resp' = Resp("refreshToken", token,
                          fault,
                          InvalidRefreshToken, NoTokens, calls[p].beaten,
                          calls[p].late)
          /\ UNCHANGED <<refreshTokens, issued, consumedRT>>
  /\ UNCHANGED <<now, magicLinks, blacklistedTokens, created, outbox, usedMagic>>
  /\ UNCHANGED cacheVars
  /\ UNCHANGED outerVars

(***************************************************************************)
(* AuthService.logout                                                      *)
(***************************************************************************)
\* logout that also deletes the refresh token signed together with the
\* presented access token
Logout_RemovesPaired(token) ==
  /\ Cardinality(blacklistedTokens \cup {token}) <= MaxBlacklist
  /\ blacklistedTokens' = blacklistedTokens \cup {token}
  /\ refreshTokens' =
       (refreshTokens \ UNION {d.refreshToken : d \in jwtDecode(token)})
         \ {Tok("refresh", d.customerId, "", "", d.iat, TRUE) : d \in jwtDecode(token)}
  /\ resp' = Resp("logout", token, NoFault, OK, NoTokens, FALSE, FALSE)
  /\ UNCHANGED <<now, magicLinks, calls, created, outbox, issued, usedMagic,
                 consumedRT>>
  /\ UNCHANGED cacheVars
  /\ UNCHANGED outerVars

\* logout that only looks for a refresh token to delete
Logout_NoBlacklist(token) ==
  /\ UNCHANGED blacklistedTokens
  /\ refreshTokens' =
       refreshTokens \ UNION {d.refreshToken : d \in jwtDecode(token)}
  /\ resp' = Resp("logout", token, NoFault, OK, NoTokens, FALSE, FALSE)
  /\ UNCHANGED <<now, magicLinks, calls, created, outbox, issued, usedMagic,
                 consumedRT>>
  /\ UNCHANGED cacheVars
  /\ UNCHANGED outerVars

Logout(token) ==
  /\ Cardinality(blacklistedTokens \cup {token}) <= MaxBlacklist
  /\ blacklistedTokens' = blacklistedTokens \cup {token}
  /\ refreshTokens' =
       refreshTokens \ UNION {d.refreshToken : d \in jwtDecode(token)}
  /\ resp' = Resp("logout", token, NoFault, OK, NoTokens, FALSE, FALSE)
  /\ UNCHANGED <<now, magicLinks, calls, created, outbox, issued, usedMagic,
                 consumedRT>>
  /\ UNCHANGED cacheVars
  /\ UNCHANGED outerVars

(***************************************************************************)
(* AuthService.verifyToken                                                 *)
(***************************************************************************)
\* verifyToken consulting the blacklist only after jwt.verify
verifyToken_SignatureFirst(token, blacklist, nowMs) ==
  IF jwtVerify(token, nowMs) = "TokenExpiredError" THEN Err(401, "TOKEN_EXPIRED")
  ELSE IF jwtVerify(token, nowMs) # "ok" THEN Err(401, "INVALID_TOKEN")
  ELSE IF token \in blacklist THEN Err(401, "TOKEN_REVOKED")
  ELSE OK

\* verifyToken reporting an expired token as an invalid one
verifyToken_ExpiredAsInvalid(token, blacklist, nowMs) ==
  IF token \in blacklist THEN Err(401, "TOKEN_REVOKED")
  ELSE IF jwtVerify(token, nowMs) = "ok" THEN OK
  ELSE Err(401, "INVALID_TOKEN")

verifyToken(token, blacklist, nowMs) ==
  IF token \in blacklist THEN Err(401, "TOKEN_REVOKED")
  ELSE IF jwtVerify(token, nowMs) = "ok" THEN OK
  ELSE IF jwtVerify(token, nowMs) = "TokenExpiredError"
       THEN Err(401, "TOKEN_EXPIRED")
  ELSE Err(401, "INVALID_TOKEN")

\* the payload jwt.verify returns
Claims(tok) ==
  [customerId |-> tok.customerId, email |-> tok.email, name |-> tok.name,
   type |-> tok.type, iat |-> tok.iat, exp |-> Exp(tok)]

VerifyToken(token) ==
  LET v == verifyToken(token, blacklistedTokens, now) IN
  /\ resp' = [Resp("verifyToken", token, NoFault, v, NoTokens, FALSE, FALSE)
                EXCEPT !.data = IF v = OK THEN Claims(token) ELSE NoData]
  /\ UNCHANGED <<now, magicLinks, refreshTokens, blacklistedTokens, calls,
                 created, outbox, issued, usedMagic, consumedRT>>
  /\ UNCHANGED cacheVars
  /\ UNCHANGED outerVars

(***************************************************************************)
(* GET /me with a Bearer header: the claims of the verified token          *)
(***************************************************************************)
\* GET /me answering with the directory's record of the customer
WhoAmI_FromDirectory(token) ==
  LET v == verifyToken(token, blacklistedTokens, now)
      customer == getCustomerById(token.customerId, NoFault, 1) IN
  /\ resp' =
       IF v # OK
       THEN Resp("whoAmI", token, NoFault, v, NoTokens, FALSE, FALSE)
       ELSE IF customer.val = {}
       THEN Resp("whoAmI", token, NoFault, Err(401, "INVALID_TOKEN"),
                 NoTokens, FALSE, FALSE)
       ELSE [Resp("whoAmI", token, NoFault, OK, NoTokens, FALSE, FALSE)
               EXCEPT !.data = CustomerData(CHOOSE c \in customer.val : TRUE)]
  /\ UNCHANGED <<now, magicLinks, refreshTokens, blacklistedTokens, calls,
                 created, outbox, issued, usedMagic, consumedRT>>
  /\ UNCHANGED cacheVars
  /\ UNCHANGED outerVars

WhoAmI(token) ==
  LET v == verifyToken(token, blacklistedTokens, now) IN
  /\ resp' =
       IF v # OK
       THEN Resp("whoAmI", token, NoFault, v, NoTokens, FALSE, FALSE)
       ELSE IF token.customerId = ""
       THEN Resp("whoAmI", token, NoFault, Err(401, "INVALID_TOKEN"),
                 NoTokens, FALSE, FALSE)
       ELSE [Resp("whoAmI", token, NoFault, OK, NoTokens, FALSE, FALSE)
               EXCEPT !.data = [id |-> token.customerId,
                                email |-> token.email,
                                name |-> token.name]]
  /\ UNCHANGED <<now, magicLinks, refreshTokens, blacklistedTokens, calls,
                 created, outbox, issued, usedMagic, consumedRT>>
  /\ UNCHANGED cacheVars
  /\ UNCHANGED outerVars

(***************************************************************************)
(* CacheService                                                            *)
(***************************************************************************)
defaultTTL == 5 * 60 * 1000

\* the expiry test one millisecond too early
cacheExpired_AtTtl(item, nowMs) == nowMs - item.timestamp >= item.ttl

\* Date.now() - item.timestamp > item.ttl
cacheExpired(item, nowMs) == nowMs - item.timestamp > item.ttl

\* CacheService.get: the value returned and the map it leaves
cacheGet(c, key, nowMs) ==
  IF key \notin DOMAIN c THEN [data |-> null, cache |-> c]
  ELSE IF cacheExpired(c[key], nowMs)
       THEN [data |-> null, cache |-> MapDelete(c, key)]
  ELSE [data |-> c[key].data, cache |-> c]

\* ttl || this.defaultTTL
ttlOrDefault(ttl) ==
  IF ttl = {} \/ ttl = {0} THEN defaultTTL ELSE CHOOSE t \in ttl : TRUE

\* CacheService.set: the map it leaves
cacheSet(c, key, data, ttl, nowMs) ==
  MapSet(c, key, [data |-> data, timestamp |-> nowMs, ttl |-> ttlOrDefault(ttl)])

CacheResp(op, key, err, data) ==
  [Resp(op, key, NoFault, err, NoTokens, FALSE, FALSE) EXCEPT !.data = data]

cacheFrame ==
  UNCHANGED <<now, magicLinks, refreshTokens, blacklistedTokens, calls, created,
              outbox, issued, usedMagic, consumedRT, outerVars>>

CacheGet(key) ==
  LET g == cacheGet(cache, key, now) IN
  /\ cache' = g.cache
  /\ resp' = CacheResp("cache.get", key, OK, g.data)
  /\ UNCHANGED <<cacheCalls, factoryCalls>>
  /\ cacheFrame

CacheSet(key, data, ttl) ==
  /\ cache' = cacheSet(cache, key, data, ttl, now)
  /\ resp' = CacheResp("cache.set", key, OK, [value |-> data, ttl |-> ttl])
  /\ UNCHANGED <<cacheCalls, factoryCalls>>
  /\ cacheFrame

CacheDelete(key) ==
  /\ cache' = MapDelete(cache, key)
  /\ resp' = CacheResp("cache.delete", key, OK, key \in DOMAIN cache)
  /\ UNCHANGED <<cacheCalls, factoryCalls>>
  /\ cacheFrame

CacheClear ==
  /\ cache' = <<>>
  /\ resp' = CacheResp("cache.clear", "", OK, NoData)
  /\ UNCHANGED <<cacheCalls, factoryCalls>>
  /\ cacheFrame

\* a cleanup that also removes the entries whose ttl has just been reached
CacheCleanup_AtTtl ==
  /\ cache' = [k \in {x \in DOMAIN cache : ~(now - cache[x].timestamp >= cache[x].ttl)}
                 |-> cache[k]]
  /\ resp' = CacheResp("cache.cleanup", "", OK, NoData)
  /\ UNCHANGED <<cacheCalls, factoryCalls>>
  /\ cacheFrame

\* CacheService.cleanup, run by the interval timer of startCleanup
CacheCleanup ==
  /\ cache' = [k \in {x \in DOMAIN cache : ~(now - cache[x].timestamp > cache[x].ttl)}
                 |-> cache[k]]
  /\ resp' = CacheResp("cache.cleanup", "", OK, NoData)
  /\ UNCHANGED <<cacheCalls, factoryCalls>>
  /\ cacheFrame

(***************************************************************************)
(* CacheService.getOrSet, up to await factory(): the factory is invoked    *)
(* when get returns null.                                                  *)
(***************************************************************************)
CacheIdleProcs == {p \in Procs : cacheCalls[p].pc = "idle"}
CacheFreeSlot == CHOOSE p \in CacheIdleProcs : \A q \in CacheIdleProcs : p <= q

\* the error a factory rejects with, rethrown by getOrSet
FactoryError == Err(500, "FACTORY_ERROR")

\* getOrSet that waits for a factory already in flight for the key instead
\* of invoking its own
GetOrSetBegin_SingleFlight(key, ttl) ==
  LET g == cacheGet(cache, key, now) IN
  /\ cache' = g.cache
  /\ IF g.data # null
     THEN /\ resp' = CacheResp("cache.getOrSetBegin", key, OK, g.data)
          /\ UNCHANGED <<cacheCalls, factoryCalls>>
     ELSE /\ CacheIdleProcs # {}
          /\ factoryCalls[key] < MaxFactory
          /\ cacheCalls' = [cacheCalls EXCEPT ![CacheFreeSlot] =
               [pc |-> "getOrSet", key |-> key, ttl |-> ttl, beaten |-> FALSE]]
          /\ factoryCalls' =
               IF \E q \in Procs : cacheCalls[q].pc = "getOrSet"
                                     /\ cacheCalls[q].key = key
               THEN factoryCalls
               ELSE [factoryCalls EXCEPT ![key] = @ + 1]
          /\ resp' = CacheResp("cache.getOrSetBegin", key, PENDING, NoData)
  /\ cacheFrame

GetOrSetBegin(key, ttl) ==
  LET g == cacheGet(cache, key, now) IN
  /\ cache' = g.cache
  /\ IF g.data # null
     THEN /\ resp' = CacheResp("cache.getOrSetBegin", key, OK, g.data)
          /\ UNCHANGED <<cacheCalls, factoryCalls>>
     ELSE /\ CacheIdleProcs # {}
          /\ factoryCalls[key] < MaxFactory
          /\ cacheCalls' = [cacheCalls EXCEPT ![CacheFreeSlot] =
               [pc |-> "getOrSet", key |-> key, ttl |-> ttl, beaten |-> FALSE]]
          /\ factoryCalls' = [factoryCalls EXCEPT ![key] = @ + 1]
          /\ resp' = CacheResp("cache.getOrSetBegin", key, PENDING, NoData)
  /\ cacheFrame

(***************************************************************************)
(* CacheService.getOrSet, from the factory's settling to the return: the   *)
(* factory resolves with data or rejects.                                  *)
(***************************************************************************)
GetOrSetFinish(p, data, resolved) ==
  LET key == cacheCalls[p].key IN
  /\ cacheCalls[p].pc = "getOrSet"
  /\ IF resolved
     THEN /\ cache' = cacheSet(cache, key, data, cacheCalls[p].ttl, now)
          /\ cacheCalls' =
               [q \in Procs |->
                  IF q = p THEN CacheIdle
                  ELSE IF cacheCalls[q].pc = "getOrSet" /\ cacheCalls[q].key = key
                       THEN [cacheCalls[q] EXCEPT !.beaten = TRUE]
                  ELSE cacheCalls[q]]
          /\ resp' = [CacheResp("cache.getOrSet", key, OK, data)
                        EXCEPT !.beaten = cacheCalls[p].beaten]
     ELSE /\ cacheCalls' = [cacheCalls EXCEPT ![p] = CacheIdle]
          /\ resp' = [CacheResp("cache.getOrSet", key, FactoryError, NoData)
                        EXCEPT !.beaten = cacheCalls[p].beaten]
          /\ UNCHANGED cache
  /\ UNCHANGED factoryCalls
  /\ cacheFrame

(***************************************************************************)
(* The standalone server (routes/auth.ts, second half): its booking cache  *)
(* and its POST /api/auth/login.  booqableService is taken as configured.  *)
(***************************************************************************)
CACHE_DURATION == 5 * 60 * 1000

\* email.split('@')[0] on the emails of the model
emailName(e) ==
  IF toLowerCase(e) = "maria@x" THEN "maria"
  ELSE IF e = "bob@x" THEN "bob" ELSE "nobody"

\* getCachedBooking: the booking returned (the empty set for null) and the
\* map it leaves; an error of verifyBooking is caught and logged
getCachedBooking(bc, bookingNumber, email, fault, nowMs) ==
  LET cacheKey == <<bookingNumber, email>> IN
  IF cacheKey \in DOMAIN bc /\ nowMs - bc[cacheKey].timestamp < CACHE_DURATION
  THEN [booking |-> {bc[cacheKey].booking}, cache |-> bc]
  ELSE LET booking == verifyBooking(bookingNumber, email, fault) IN
       IF booking.err = OK /\ booking.val # {}
       THEN [booking |-> booking.val,
             cache |-> MapSet(bc, cacheKey,
                         [booking |-> CHOOSE o \in booking.val : TRUE,
                          timestamp |-> nowMs])]
       ELSE [booking |-> {}, cache |-> bc]

\* the user the login handler builds from a booking, and the mock user it
\* falls back to without one
UserOf(booking, bookingNumber, email) ==
  LET customer == CHOOSE c \in Customers : c.id = booking.customer_id IN
  [id |-> booking.customer_id, email |-> email, bookingNumber |-> bookingNumber,
   firstName |-> IF customer.first_name # "" THEN customer.first_name
                 ELSE emailName(email),
   lastName |-> IF customer.last_name # "" THEN customer.last_name ELSE "Ostos"]

MockUser(bookingNumber, email) ==
  [id |-> "12345", email |-> email, bookingNumber |-> bookingNumber,
   firstName |-> "Ondrej", lastName |-> "Vymetalik"]

\* 'mock-jwt-token-' + Date.now() + '-' + base64(user fields)
MockToken(user, nowMs) ==
  <<"mock-jwt-token", nowMs, user.email, user.bookingNumber, user.firstName,
    user.lastName>>

MockRefreshToken(nowMs) == <<"mock-refresh-token", nowMs>>

\* the JSON body of an error answer
Failure(error) == [success |-> FALSE, error |-> error]

standaloneFrame ==
  UNCHANGED <<now, magicLinks, refreshTokens, blacklistedTokens, calls, created,
              outbox, issued, usedMagic, consumedRT, cacheVars, client>>

\* POST /api/auth/login of the standalone server; an absent body field is
\* the empty string.  resp.arg is the request body, resp.late whether
\* getCachedBooking returned a booking.
StandaloneLogin(bookingNumber, email, fault) ==
  LET body == [bookingNumber |-> bookingNumber, email |-> email]
      g == getCachedBooking(bookingCache, bookingNumber, email, fault, now)
      user == IF g.booking # {}
              THEN UserOf(CHOOSE o \in g.booking : TRUE, bookingNumber, email)
              ELSE MockUser(bookingNumber, email)
  IN
  /\ IF bookingNumber = "" \/ email = ""
     THEN /\ resp' = [Resp("standalone.login", body, fault,
                           Err(400, "BAD_REQUEST"), NoTokens, FALSE, FALSE)
                        EXCEPT !.data =
                          Failure("Booking number and email are required")]
          /\ UNCHANGED bookingCache
     ELSE /\ bookingCache' = g.cache
          /\ resp' = [Resp("standalone.login", body, fault, OK, NoTokens,
                           FALSE, g.booking # {})
                        EXCEPT !.data =
                          [success |-> TRUE, user |-> user,
                           token |-> MockToken(user, now),
                           refreshToken |-> MockRefreshToken(now),
                           booking |-> g.booking]]
  /\ standaloneFrame

(***************************************************************************)
(* The browser's ApiService: one axios client whose response interceptor   *)
(* answers a 401 with a call of the refresh endpoint through the same      *)
(* client, and then sends the failed request again.                        *)
(***************************************************************************)
\* a request as it leaves the request interceptor
Request(kind, retry, authToken) ==
  [kind |-> kind, retry |-> retry, bearer |-> authToken]

ClientResp(op, arg, outcome) ==
  [Resp(op, arg, NoFault, OK, NoTokens, FALSE, FALSE) EXCEPT !.data = outcome]

clientFrame ==
  UNCHANGED <<now, magicLinks, refreshTokens, blacklistedTokens, calls, created,
              outbox, issued, usedMagic, consumedRT, cacheVars, bookingCache>>

\* ApiService.setAuthData, called with the answer to a login
setAuthData ==
  /\ client.inflight = NoRequest
  /\ client' = [client EXCEPT !.stored = TRUE, !.authToken = "login"]
  /\ resp' = ClientResp("client.setAuthData", "", "stored")
  /\ clientFrame

\* ApiService.logout: clearAuth, whatever request is under way
clientLogout ==
  /\ client' = [client EXCEPT !.stored = FALSE, !.authToken = "none"]
  /\ resp' = ClientResp("client.logout", "", "cleared")
  /\ clientFrame

\* get / post / put / delete of ApiService: a new request of the page
ClientRequest ==
  /\ client.inflight = NoRequest
  /\ client' = [client EXCEPT !.inflight = Request("original", FALSE, client.authToken),
                              !.refreshCalls = 0, !.retries = 0]
  /\ resp' = ClientResp("client.request", "", "sent")
  /\ clientFrame

\* Promise.reject(error) out of the interceptor: the promise the page holds
\* rejects when no handler awaits it; else it lands in the catch of the
\* handler that awaits it, which runs clearAuth and rejects in its turn
ClientReject(status) ==
  /\ client' = [client EXCEPT !.inflight = NoRequest, !.awaiting = <<>>,
                              !.stored = IF client.awaiting = <<>>
                                         THEN client.stored ELSE FALSE,
                              !.authToken = IF client.awaiting = <<>>
                                            THEN client.authToken ELSE "none"]
  /\ resp' = ClientResp("client.respond", status, "rejected")

\* the server's answer to the request on the wire, and the response
\* interceptor run on it
ClientRespond(status) ==
  /\ client.inflight # NoRequest
  /\ IF status = 200
     THEN IF client.awaiting = <<>>
          THEN /\ client' = [client EXCEPT !.inflight = NoRequest]
               /\ resp' = ClientResp("client.respond", status, "resolved")
          ELSE \* the awaited refresh call returned: setAuthToken, and
               \* this.client(originalRequest) with _retry set
               LET request == Head(client.awaiting) IN
               /\ client' =
                    [client EXCEPT
                       !.inflight = Request(request, TRUE, "refreshed"),
                       !.awaiting = Tail(client.awaiting),
                       !.authToken = "refreshed",
                       !.retries = IF request = "original" THEN @ + 1 ELSE @,
                       !.refreshCalls = IF request = "refresh" THEN @ + 1 ELSE @]
               /\ resp' = ClientResp("client.respond", status, "retried")
     ELSE IF status = 401 /\ ~client.inflight.retry /\ client.stored
          THEN /\ client.refreshCalls < MaxRefresh
               /\ client' =
                    [client EXCEPT
                       !.inflight = Request("refresh", FALSE, client.authToken),
                       !.awaiting = <<client.inflight.kind>> \o @,
                       !.refreshCalls = @ + 1]
               /\ resp' = ClientResp("client.respond", status, "refreshing")
          ELSE ClientReject(status)
  /\ clientFrame

(***************************************************************************)
(* The clock                                                               *)
(***************************************************************************)
Tick(instants) ==
  /\ \E t \in instants : t > now /\ now' = t
  /\ resp' = Resp("tick", 0, NoFault, OK, NoTokens, FALSE, FALSE)
  /\ UNCHANGED <<magicLinks, refreshTokens, blacklistedTokens, calls, created,
                 outbox, issued, usedMagic, consumedRT>>
  /\ UNCHANGED cacheVars
  /\ UNCHANGED outerVars

(***************************************************************************)
(* Specifications.  The three groups of operations share the stores but    *)
(* are explored separately, each with the inputs its claims are about:     *)
(* booking login against a faulty directory; the magic-link flow; the      *)
(* token lifecycle of sessions opened by a correct booking login.          *)
(***************************************************************************)
Login ==
  \E b \in BookingNumbers, e \in Emails, f \in Faults(4), ci \in BOOLEAN :
    LoginWithBooking(b, e, f, ci)

GoodLogin == LoginWithBooking("6004", "maria@x", NoFault, FALSE)

\* outside the booking login the directory fails in one way only: a 5xx
Outage(n) == {f \in Faults(n) : f.kind \in {"none", "http5xx"}}

SendLink ==
  \E e \in Emails \ {"bob@x"}, f \in Outage(1), ci \in BOOLEAN,
     mailOk \in BOOLEAN :
    SendMagicLink(e, f, ci, mailOk)

VerifyLinkBegin == \E t \in 0..Len(created) : VerifyMagicLinkBegin(t)

VerifyLinkFinish ==
  \E p \in Procs, f \in Outage(2), ci \in BOOLEAN :
    VerifyMagicLinkFinish(p, f, ci)

RefreshBegin == \E t \in Presentable : RefreshTokenBegin(t)

RefreshFinish == \E p \in Procs, f \in Outage(1) : RefreshTokenFinish(p, f)

LogoutAny == \E t \in Presentable : Logout(t)

\* logout with an unsigned token whose payload names a whitelisted refresh
\* token
LogoutForged == \E r \in refreshTokens : Logout(ForgedCarrying(r))

VerifyAny == \E t \in Presentable \cup blacklistedTokens : VerifyToken(t)

\* an access token this service signed for c1 when the directory still had
\* the customer under another last name
IssuedBeforeRename == Tok("access", "c1", "maria@x", "Maria Ostos", 0, TRUE)

WhoAmIAny == \E t \in Presentable \cup {IssuedBeforeRename} : WhoAmI(t)

\* the instants at which the cache is observed: the start, exactly the short
\* ttl and the default ttl later, and one millisecond after each
CacheInstants == {0, 1000, 1001, defaultTTL, defaultTTL + 1}

CacheGetAny == \E k \in CacheKeys : CacheGet(k)

CacheSetAny ==
  \E k \in CacheKeys, v \in CacheValues, ttl \in TtlArgs : CacheSet(k, v, ttl)

CacheDeleteAny == \E k \in CacheKeys : CacheDelete(k)

\* the getOrSet calls of the model are all on one key
GetOrSetBeginAny == \E ttl \in TtlArgs : GetOrSetBegin("k1", ttl)

GetOrSetFinishAny ==
  \E p \in Procs, v \in CacheValues, resolved \in BOOLEAN :
    GetOrSetFinish(p, v, resolved)

\* the instants at which the standalone server is observed: the start, one
\* millisecond before the cache duration has passed, and that instant
StandaloneInstants == {0, CACHE_DURATION - 1, CACHE_DURATION}

StandaloneLoginAny ==
  \E b \in BookingNumbers \cup {""}, e \in {"maria@x", "MARIA@x", "nobody@x", ""},
     f \in Faults(2) :
    StandaloneLogin(b, e, f)

\* the answers of the server the client is exercised with
ClientRespondAny == \E status \in {200, 401, 500} : ClientRespond(status)

NextLogin == Login \/ Tick(SessionInstants)

NextMagic ==
  \/ SendLink
  \/ VerifyLinkBegin
  \/ VerifyLinkFinish
  \/ CleanupExpiredMagicLinks
  \/ Tick(MagicInstants)

\* a client that waits for the answer to one refresh before the next
RefreshBeginSeq == (\A p \in Procs : calls[p].pc = "idle") /\ RefreshBegin

NextRefresh ==
  \/ GoodLogin
  \/ RefreshBegin
  \/ RefreshFinish
  \/ Tick(SessionInstants)

NextRevoke ==
  \/ GoodLogin
  \/ RefreshBeginSeq
  \/ RefreshFinish
  \/ LogoutAny
  \/ VerifyAny
  \/ Tick(SessionInstants)

NextWhoAmI ==
  \/ GoodLogin
  \/ LogoutAny
  \/ WhoAmIAny
  \/ Tick(SessionInstants)

NextCache ==
  \/ CacheSetAny
  \/ CacheGetAny
  \/ CacheDeleteAny
  \/ CacheClear
  \/ CacheCleanup
  \/ Tick(CacheInstants)

NextGetOrSet ==
  \/ GetOrSetBeginAny
  \/ GetOrSetFinishAny
  \/ CacheGetAny
  \/ CacheCleanup
  \/ Tick(CacheInstants)

NextLogout ==
  \/ GoodLogin
  \/ LogoutAny
  \/ LogoutForged
  \/ Tick(SessionInstants)

NextStandalone == StandaloneLoginAny \/ Tick(StandaloneInstants)

NextClient == setAuthData \/ clientLogout \/ ClientRequest \/ ClientRespondAny

SpecLogin == Init /\ [][NextLogin]_vars
SpecMagic == Init /\ [][NextMagic]_vars
SpecRefresh == Init /\ [][NextRefresh]_vars
SpecRevoke == Init /\ [][NextRevoke]_vars
SpecWhoAmI == Init /\ [][NextWhoAmI]_vars
SpecLogout == Init /\ [][NextLogout]_vars
SpecCache == Init /\ [][NextCache]_vars
SpecGetOrSet == Init /\ [][NextGetOrSet]_vars
SpecStandalone == Init /\ [][NextStandalone]_vars
SpecClient == Init /\ [][NextClient]_vars

(***************************************************************************)
(* Properties                                                              *)
(***************************************************************************)
InvalidCredentials == Err(401, "INVALID_CREDENTIALS")
InvalidMagicLink == Err(401, "INVALID_MAGIC_LINK")
ExpiredMagicLink == Err(401, "EXPIRED_MAGIC_LINK")
TokenRevoked == Err(401, "TOKEN_REVOKED")

\* the directory has no order with that number, or the email of the order's
\* customer is not the supplied string
NoMatchingRecord(arg) ==
  \A o \in Orders : o.number = arg.bookingNumber =>
    \E c \in Customers : c.id = o.customer_id /\ c.email # arg.email

\* the same, with the emails compared ignoring letter case
NoMatchingRecordIgnoringCase(arg) ==
  \A o \in Orders : o.number = arg.bookingNumber =>
    \E c \in Customers :
      c.id = o.customer_id /\ toLowerCase(c.email) # toLowerCase(arg.email)

\* C1 as stated: for every (bookingNumber, email) with no order of that
\* number, or whose owning customer's email differs from the supplied one,
\* loginWithBooking fails with InvalidCredentials and leaves the whitelist,
\* the blacklist and the magic-link store as they were.
C1_LoginRejectsNonMatching ==
  [][(resp'.op = "loginWithBooking" /\ NoMatchingRecord(resp'.arg))
       => (resp'.err = InvalidCredentials /\ UNCHANGED stores)]_vars

\* C1 amended: when no directory call of the login fails and the record does
\* not match even ignoring letter case, loginWithBooking fails with
\* InvalidCredentials; and every failed login, whatever its error, leaves the
\* whitelist, the blacklist and the magic-link store as they were.
C1_LoginRejectsNonMatchingIgnoringCase ==
  [][(resp'.op = "loginWithBooking")
       => /\ (resp'.fault = NoFault /\ NoMatchingRecordIgnoringCase(resp'.arg))
               => resp'.err = InvalidCredentials
          /\ resp'.err # OK => UNCHANGED stores /\ resp'.tokens = NoTokens]_vars

\* a login for an existing order with another customer's email was rejected
\* while the whitelist held a token
C1_Witness ==
  /\ resp.op = "loginWithBooking"
  /\ resp.arg = [bookingNumber |-> "6004", email |-> "bob@x"]
  /\ resp.fault = NoFault
  /\ resp.err = InvalidCredentials
  /\ refreshTokens # {}

\* C2: among the verifyMagicLink calls that overlap on one stored, unexpired
\* magic link, at most one returns a token pair: no call returns a pair after
\* a call it overlapped with already returned one for that link.
C2_MagicLinkRedeemedOnce ==
  ~(resp.op = "verifyMagicLink" /\ resp.err = OK /\ resp.beaten)

\* C3: among the refresh calls that overlap on one whitelisted, valid refresh
\* token, at most one returns a new pair.
C3_RefreshTokenSpentOnce ==
  ~(resp.op = "refreshToken" /\ resp.err = OK /\ resp.beaten)

\* C4: after refresh(t) has returned a pair, no refresh(t) invoked later
\* returns a pair: it fails with InvalidRefreshToken.
C4_ConsumedRefreshTokenRejected ==
  (resp.op = "refreshToken" /\ resp.late) => resp.err = InvalidRefreshToken

\* C5: the refresh token of every pair that loginWithBooking, verifyMagicLink
\* or refresh returns is in the whitelist when the operation returns.
C5_ReturnedRefreshTokenWhitelisted ==
  (resp.op \in {"loginWithBooking", "verifyMagicLink", "refreshToken"}
     /\ resp.err = OK)
    => resp.tokens.refreshToken \in refreshTokens

\* C6: a verifyMagicLink invoked after the link has been redeemed
\* successfully fails with InvalidMagicLink at once and issues no tokens.
C6_UsedMagicLinkRejected ==
  [][(resp'.op = "verifyMagicLinkBegin" /\ resp'.arg \in usedMagic)
       => /\ resp'.err = InvalidMagicLink
          /\ UNCHANGED <<refreshTokens, issued, calls>>]_vars

C6_Witness ==
  /\ resp.op = "verifyMagicLinkBegin"
  /\ resp.arg \in usedMagic
  /\ resp.err = InvalidMagicLink
  /\ now < created[resp.arg].at + MAGIC_LINK_EXPIRES_IN

\* milliseconds since sendMagicLink created the link
Elapsed(token) == now - created[token].at

\* C7 as stated: every verifyMagicLink on a never-used link attempted when 15
\* minutes or more have elapsed since its creation is rejected with
\* ExpiredMagicLink.
C7_ExpiredAtFifteenMinutesEveryAttempt ==
  (/\ resp.op = "verifyMagicLinkBegin"
   /\ resp.arg \in 1..Len(created)
   /\ resp.arg \notin usedMagic
   /\ Elapsed(resp.arg) >= MAGIC_LINK_EXPIRES_IN)
    => resp.err = ExpiredMagicLink

\* C7 amended: every verifyMagicLink on a never-used link attempted when more
\* than 15 minutes have elapsed since its creation is rejected, issues no
\* tokens and leaves no entry for the link: with ExpiredMagicLink when the
\* entry is still stored, with InvalidMagicLink when an earlier attempt or
\* the cleanup has removed it.
C7_RejectedAfterFifteenMinutes ==
  [][(/\ resp'.op = "verifyMagicLinkBegin"
      /\ resp'.arg \in 1..Len(created)
      /\ resp'.arg \notin usedMagic
      /\ Elapsed(resp'.arg) > MAGIC_LINK_EXPIRES_IN)
       => /\ resp'.err = IF resp'.arg \in DOMAIN magicLinks
                         THEN ExpiredMagicLink ELSE InvalidMagicLink
          /\ resp'.arg \notin DOMAIN magicLinks'
          /\ UNCHANGED <<refreshTokens, issued, calls>>]_vars

C7_Witness ==
  /\ resp.op = "verifyMagicLinkBegin"
  /\ resp.arg \in 1..Len(created)
  /\ resp.arg \notin usedMagic
  /\ Elapsed(resp.arg) > MAGIC_LINK_EXPIRES_IN
  /\ resp.err = ExpiredMagicLink

\* C8: whenever the directory answers, POST /magic-link answers 200, whether
\* or not the email belongs to a customer and whether or not the dispatcher
\* accepts the mail.
C8_SendMagicLinkAlways200 ==
  (resp.op = "sendMagicLink" /\ resp.fault = NoFault) => resp.err.status = 200

\* no customer of the directory has this email, in any letter case
UnknownEmail(email) ==
  \A c \in Customers : toLowerCase(c.email) # toLowerCase(email)

\* C9: sendMagicLink for an email the directory does not know leaves the
\* magic-link store, the whitelist and the blacklist as they were and hands
\* no mail to the dispatcher.
C9_UnknownEmailNoEffect ==
  [][(resp'.op = "sendMagicLink" /\ UnknownEmail(resp'.arg))
       => UNCHANGED <<magicLinks, refreshTokens, blacklistedTokens, outbox,
                      created>>]_vars

C9_Witness ==
  /\ resp.op = "sendMagicLink"
  /\ UnknownEmail(resp.arg)
  /\ resp.err = OK
  /\ DOMAIN magicLinks # {}

\* C10: verifyToken on a string that is in the blacklist fails with
\* TokenRevoked, whatever jwt.verify would say of the string.
C10_BlacklistedTokenRevoked ==
  (resp.op = "verifyToken" /\ resp.arg \in blacklistedTokens)
    => resp.err = TokenRevoked

\* a blacklisted token that jwt.verify rejects as expired, and a blacklisted
\* string that is no token, were answered TokenRevoked
C10_Witness ==
  /\ resp.op = "verifyToken"
  /\ resp.arg \in blacklistedTokens
  /\ resp.err = TokenRevoked
  /\ jwtVerify(resp.arg, now) = "TokenExpiredError"
  /\ Malformed \in blacklistedTokens

\* C11: once logout(a) has run, verifyToken(a) fails with TokenRevoked in
\* every later state: logout leaves its token revoked, and no step of any
\* operation makes a revoked token anything else.
C11_LogoutIsTerminal ==
  [][/\ resp'.op = "logout"
          => verifyToken(resp'.arg, blacklistedTokens', now') = TokenRevoked
     /\ \A t \in Presentable \cup blacklistedTokens :
          verifyToken(t, blacklistedTokens, now) = TokenRevoked
            => verifyToken(t, blacklistedTokens', now') = TokenRevoked]_vars

\* an access token that jwt.verify still accepts was answered TokenRevoked
\* after its logout and a later refresh of the session's refresh token
C11_Witness ==
  /\ resp.op = "verifyToken"
  /\ resp.arg.type = "access"
  /\ jwtVerify(resp.arg, now) = "ok"
  /\ resp.err = TokenRevoked
  /\ consumedRT # {}

\* the refresh token generateTokens signs in the same pair as access token a
PairedRefreshToken(a) == Tok("refresh", a.customerId, "", "", a.iat, TRUE)

\* C12: when logout has run with the access token of an issued pair, the
\* refresh token of that pair is not in the whitelist.
C12_LogoutRemovesPairedRefreshToken ==
  (resp.op = "logout" /\ resp.arg.type = "access" /\ resp.arg.signed)
    => PairedRefreshToken(resp.arg) \notin refreshTokens

\* C13: refresh(t) goes on to issue a pair only if, when it is invoked, t is
\* in the whitelist, its signature verifies and it is unexpired; when one of
\* the three fails the call fails with InvalidRefreshToken at once; and a
\* refresh that fails, at once or after the directory lookup, fails with
\* InvalidRefreshToken and leaves the whitelist and the issued tokens as
\* they were.
C13_RefreshOnlyValidWhitelisted ==
  [][/\ resp'.op = "refreshTokenBegin"
          => IF resp'.arg \in refreshTokens /\ resp'.arg.signed
                /\ resp'.arg.type \in {"access", "refresh"}
                /\ Seconds(now) < Exp(resp'.arg)
             THEN resp'.err = PENDING
             ELSE /\ resp'.err = InvalidRefreshToken
                  /\ UNCHANGED <<refreshTokens, issued, calls>>
     /\ (resp'.op = "refreshToken" /\ resp'.err = OK)
          => \E p \in Procs :
               calls[p].pc = "refreshToken" /\ calls[p].rt = resp'.arg
     /\ (resp'.op = "refreshToken" /\ resp'.err # OK)
          => /\ resp'.err = InvalidRefreshToken
             /\ resp'.tokens = NoTokens
             /\ UNCHANGED <<refreshTokens, issued>>
     /\ \A p \in Procs :
          (calls'[p].pc = "refreshToken" /\ calls[p].pc # "refreshToken")
            => /\ calls'[p].rt \in refreshTokens
               /\ jwtVerify(calls'[p].rt, now) = "ok"]_vars

\* a well-signed, unexpired refresh token that is no longer whitelisted was
\* refused
C13_Witness ==
  /\ resp.op = "refreshTokenBegin"
  /\ resp.arg.type = "refresh"
  /\ jwtVerify(resp.arg, now) = "ok"
  /\ resp.arg \notin refreshTokens
  /\ resp.err = InvalidRefreshToken

\* the directory call number at of a booking login is made (the calls before
\* it having answered): 1 the orders, 2 the order's customer, 3 the customer
\* by email, 4 the customer's bookings
Reached(arg, at) ==
  \/ at = 1
  \/ at = 2 /\ \E o \in Orders : o.number = arg.bookingNumber
  \/ at = 3 /\ ~NoMatchingRecordIgnoringCase(arg)
  \/ at = 4 /\ ~NoMatchingRecord(arg)

\* C14: loginWithBooking yields InvalidCredentials (401) whenever the
\* directory answers and has no order of that number whose customer's email
\* is the supplied one, and ServiceUnavailable (503) whenever a directory call
\* it makes gets no response or a 5xx; neither class is reported as the other
\* or as a third kind.
C14_LoginFailureClasses ==
  resp.op = "loginWithBooking"
    => /\ (resp.fault = NoFault /\ NoMatchingRecordIgnoringCase(resp.arg))
            => resp.err = InvalidCredentials
       /\ (/\ resp.fault.kind \in {"http5xx", "noresponse"}
           /\ Reached(resp.arg, resp.fault.at))
            => resp.err.status = 503

\* C15: when the directory is unavailable during the refresh of a
\* whitelisted, valid refresh token, the caller gets a retryable
\* ServiceUnavailable (503), not InvalidRefreshToken.
C15_RefreshOutageIsRetryable ==
  (resp.op = "refreshToken" /\ resp.fault.kind = "http5xx")
    => (resp.err.status = 503 /\ resp.err # InvalidRefreshToken)

\* C16: when the directory answers and holds an order of that number whose
\* customer's email is the supplied one ignoring letter case, loginWithBooking
\* returns a pair for the directory's id of that customer, and verifyToken
\* accepts the returned access token.
C16_MatchingLoginSucceeds ==
  (/\ resp.op = "loginWithBooking"
   /\ resp.fault = NoFault
   /\ ~NoMatchingRecordIgnoringCase(resp.arg))
    => /\ resp.err = OK
       /\ \E o \in Orders :
            /\ o.number = resp.arg.bookingNumber
            /\ resp.tokens.accessToken.customerId = o.customer_id
       /\ verifyToken(resp.tokens.accessToken, blacklistedTokens, now) = OK

\* C17: whoAmI on a token that verifyToken accepts answers with exactly the
\* customerId, email and name of the token's payload, whatever the directory
\* now holds for that customer, and no whoAmI changes the whitelist, the
\* blacklist or the magic-link store or involves a directory call.
C17_WhoAmIReturnsTokenClaims ==
  [][resp'.op = "whoAmI"
       => /\ UNCHANGED stores
          /\ resp'.fault = NoFault
          /\ resp'.err = verifyToken(resp'.arg, blacklistedTokens, now)
          /\ resp'.err = OK
               => resp'.data = [id |-> resp'.arg.customerId,
                                email |-> resp'.arg.email,
                                name |-> resp'.arg.name]]_vars

\* whoAmI answered with the name in a token that differs from the name the
\* directory has for that customer, while the stores were not empty
C17_Witness ==
  /\ resp.op = "whoAmI"
  /\ resp.err = OK
  /\ \E c \in Customers : c.id = resp.data.id /\ FullName(c) # resp.data.name
  /\ refreshTokens # {}
  /\ blacklistedTokens # {}

\* C18 as stated: a cache.get at a time at which the entry's ttl has elapsed
\* since the set (elapsed >= ttl) returns a miss and removes the entry, and a
\* get before that returns exactly the value that was set and leaves the
\* entry in place.
C18_GetMissesFromTtl ==
  [][(resp'.op = "cache.get" /\ resp'.arg \in DOMAIN cache)
       => LET item == cache[resp'.arg] IN
          IF now - item.timestamp >= item.ttl
          THEN resp'.data = null /\ resp'.arg \notin DOMAIN cache'
          ELSE resp'.data = item.data /\ cache' = cache]_vars

\* C18 amended: a cache.get at a time at which more than the entry's ttl has
\* elapsed since the set (elapsed > ttl) returns a miss and removes the entry
\* and no other; a get at elapsed <= ttl returns exactly the value that was
\* set and leaves the cache as it was; a get of a key without entry is a miss.
C18_GetMissesAfterTtl ==
  [][resp'.op = "cache.get"
       => IF resp'.arg \notin DOMAIN cache
          THEN resp'.data = null /\ cache' = cache
          ELSE LET item == cache[resp'.arg] IN
               IF now - item.timestamp > item.ttl
               THEN /\ resp'.data = null
                    /\ cache' = MapDelete(cache, resp'.arg)
               ELSE /\ resp'.data = item.data
                    /\ cache' = cache]_vars

\* a get exactly ttl after the set returned the stored value
C18_Witness ==
  /\ resp.op = "cache.get"
  /\ resp.arg \in DOMAIN cache
  /\ now - cache[resp.arg].timestamp = cache[resp.arg].ttl
  /\ resp.data = cache[resp.arg].data
  /\ resp.data # null

\* C19: a getOrSet that overlaps no other call and finds the entry an earlier
\* getOrSet stored for the key, within that entry's ttl, does not invoke the
\* factory and returns the stored value, for every value including null.
C19_SequentialGetOrSetInvokesFactoryOnce ==
  [][(/\ resp'.op = "cache.getOrSetBegin"
      /\ \A p \in Procs : cacheCalls[p].pc = "idle"
      /\ resp'.arg \in DOMAIN cache
      /\ now - cache[resp'.arg].timestamp <= cache[resp'.arg].ttl)
       => /\ factoryCalls' = factoryCalls
          /\ resp'.err = OK
          /\ resp'.data = cache[resp'.arg].data]_vars

\* C20: every getOrSet on a key without entry invokes the factory, whatever
\* calls are already waiting for a factory on that key; a call whose factory
\* resolves returns that result and stores it as the entry, replacing what a
\* call that resolved before it stored, and settles no other waiting call.
C20_GetOrSetNotSingleFlight ==
  [][/\ (resp'.op = "cache.getOrSetBegin" /\ resp'.arg \notin DOMAIN cache)
          => /\ resp'.err = PENDING
             /\ factoryCalls' =
                  [factoryCalls EXCEPT ![resp'.arg] = factoryCalls[resp'.arg] + 1]
             /\ \E p \in Procs :
                  /\ cacheCalls[p].pc = "idle"
                  /\ cacheCalls'[p].pc = "getOrSet"
                  /\ cacheCalls'[p].key = resp'.arg
                  /\ \A q \in Procs \ {p} : cacheCalls'[q] = cacheCalls[q]
     /\ (resp'.op = "cache.getOrSet" /\ resp'.err = OK)
          => /\ cache'[resp'.arg].data = resp'.data
             /\ cache'[resp'.arg].timestamp = now
             /\ \E p \in Procs :
                  /\ cacheCalls[p].pc = "getOrSet"
                  /\ cacheCalls'[p].pc = "idle"
                  /\ \A q \in Procs \ {p} : cacheCalls'[q].pc = cacheCalls[q].pc]_vars

\* two calls overlapped on a key without entry, two factories were invoked,
\* and the entry is the result of the call that resolved second
C20_Witness ==
  /\ resp.op = "cache.getOrSet"
  /\ resp.err = OK
  /\ resp.beaten
  /\ factoryCalls[resp.arg] = 2
  /\ cache[resp.arg].data = resp.data
  /\ now = 0

\* C21: for a string that is not in the blacklist, verifyToken returns the
\* token's claims when the signature verifies and the token is unexpired,
\* fails with TokenExpired exactly when the token is well signed but expired,
\* and fails with InvalidToken in every other case.
C21_VerifyTokenOutcomes ==
  (resp.op = "verifyToken" /\ resp.arg \notin blacklistedTokens)
    => LET t == resp.arg
           wellSigned == t.signed /\ t.type \in {"access", "refresh"} IN
       /\ (wellSigned /\ Seconds(now) < Exp(t))
            => /\ resp.err = OK
               /\ resp.data.customerId = t.customerId
               /\ resp.data.email = t.email
               /\ resp.data.name = t.name
               /\ resp.data.exp = Exp(t)
       /\ (wellSigned /\ Seconds(now) >= Exp(t))
            => resp.err = Err(401, "TOKEN_EXPIRED")
       /\ ~wellSigned => resp.err = Err(401, "INVALID_TOKEN")

\* a well-signed access token that is not blacklisted was refused as expired
\* at the second of its exp claim
C21_Witness ==
  /\ resp.op = "verifyToken"
  /\ resp.arg \notin blacklistedTokens
  /\ resp.arg.type = "access"
  /\ resp.arg.signed
  /\ Seconds(now) = Exp(resp.arg)
  /\ resp.err = Err(401, "TOKEN_EXPIRED")

\* C22 as stated: logout never changes the whitelist: it only adds the
\* presented string to the blacklist.
C22_LogoutNeverChangesWhitelist ==
  [][resp'.op = "logout"
       => /\ refreshTokens' = refreshTokens
          /\ blacklistedTokens' = blacklistedTokens \cup {resp'.arg}]_vars

\* C22 amended: logout adds the presented string to the blacklist; for every
\* token this service issued it leaves the whitelist as it was; for any other
\* string it removes from the whitelist exactly what the refreshToken field
\* of the string's unverified payload names, if there is such a field.
C22_LogoutKeepsWhitelistForIssuedTokens ==
  [][resp'.op = "logout"
       => /\ blacklistedTokens' = blacklistedTokens \cup {resp'.arg}
          /\ resp'.arg \in issued => refreshTokens' = refreshTokens
          /\ resp'.arg.type \notin {"access", "refresh"}
               => refreshTokens' = refreshTokens
          /\ refreshTokens' = refreshTokens \ resp'.arg.refreshToken]_vars

\* logout ran with an issued access token and the refresh token of its pair
\* is still whitelisted
C22_Witness ==
  /\ resp.op = "logout"
  /\ resp.arg \in issued
  /\ resp.arg.type = "access"
  /\ PairedRefreshToken(resp.arg) \in refreshTokens

\* C23: a refresh(t) invoked right after a refresh(t) has failed, with no
\* other call under way, does not return a token pair.
C23_FailedRefreshIsFinal ==
  [][(/\ resp.op = "refreshTokenBegin"
      /\ resp.err = PENDING
      /\ resp.data = TRUE
      /\ Cardinality({p \in Procs : calls[p].pc # "idle"}) = 1
      /\ resp'.op = "refreshToken"
      /\ resp'.arg = resp.arg)
       => resp'.err # OK]_vars

\* C24: a set stores the value with the ttl that was passed, for every
\* supplied ttl including 0, and with the default ttl of five minutes only
\* when none was passed; it replaces the entry of the key and restarts its
\* expiry at the time of the set.
C24_SetKeepsSuppliedTtl ==
  [][resp'.op = "cache.set"
       => /\ resp'.arg \in DOMAIN cache'
          /\ cache'[resp'.arg].data = resp'.data.value
          /\ cache'[resp'.arg].timestamp = now
          /\ cache'[resp'.arg].ttl =
               IF resp'.data.ttl = {} THEN defaultTTL
               ELSE CHOOSE t \in resp'.data.ttl : TRUE]_vars

\* C25: cleanup removes exactly the entries that get would treat as expired
\* at that moment and leaves every other entry (key, value, timestamp, ttl)
\* as it was; at no instant from then on does a get of any key return
\* something else than it would have returned without the cleanup.
C25_CleanupRemovesExactlyExpired ==
  [][resp'.op = "cache.cleanup"
       => /\ DOMAIN cache' =
               {k \in DOMAIN cache : cacheGet(cache, k, now).data = cache[k].data
                                       /\ k \in DOMAIN cacheGet(cache, k, now).cache}
          /\ \A k \in DOMAIN cache' : cache'[k] = cache[k]
          /\ \A k \in CacheKeys, t \in CacheInstants :
               t >= now => cacheGet(cache', k, t).data = cacheGet(cache, k, t).data]_vars

\* a cleanup ran exactly ttl after a set and kept that entry, while another
\* key is left without entry
C25_Witness ==
  /\ resp.op = "cache.cleanup"
  /\ \E k \in DOMAIN cache : now - cache[k].timestamp = cache[k].ttl
  /\ \E k \in CacheKeys : k \notin DOMAIN cache

\* C26: the standalone server's login answers with a token only when
\* getCachedBooking returned a booking; when the lookup finds no matching
\* booking or the directory call fails, the answer is an error and carries
\* no token.
C26_StandaloneTokenOnlyForVerifiedBooking ==
  resp.op = "standalone.login"
    => IF resp.late
       THEN resp.err = OK
       ELSE resp.err # OK /\ ~resp.data.success

\* C27: verifyToken never succeeds for a token that was issued as a refresh
\* token, and refreshToken never gets past its checks, nor returns a pair,
\* for a token that was issued as an access token.
C27_TokenTypesNotInterchangeable ==
  /\ (resp.op = "verifyToken" /\ resp.arg.type = "refresh") => resp.err # OK
  /\ (resp.op \in {"refreshTokenBegin", "refreshToken"} /\ resp.arg.type = "access")
       => resp.err \notin {OK, PENDING}

\* C28: every successful issuance (login, refresh, magic-link verification)
\* returns an access-token string and a refresh-token string that no earlier
\* issuance has returned, also for the same customer in the same second.
C28_IssuancesReturnFreshTokens ==
  [][(/\ resp'.op \in {"loginWithBooking", "refreshToken", "verifyMagicLink"}
      /\ resp'.err = OK)
       => /\ resp'.tokens.accessToken \notin issued
          /\ resp'.tokens.refreshToken \notin issued]_vars

\* C29: a verifyMagicLink that found a present, unexpired entry and then
\* fails (the directory lookup throws, or the customer is not found) returns
\* no tokens and changes neither the magic-link store nor the whitelist, so
\* the entry is still there for a later verifyMagicLink.
C29_FailedVerifyKeepsMagicLink ==
  [][(resp'.op = "verifyMagicLink" /\ resp'.err # OK)
       => /\ resp'.tokens = NoTokens
          /\ UNCHANGED <<magicLinks, refreshTokens, issued, usedMagic>>]_vars

\* a redemption failed on the directory and its link is still stored and
\* unexpired
C29_Witness ==
  /\ resp.op = "verifyMagicLink"
  /\ resp.err # OK
  /\ resp.arg \in DOMAIN magicLinks
  /\ ~magicLinkExpired(magicLinks[resp.arg], now)
  /\ resp.arg \notin usedMagic

\* C30: for one original request the browser client makes at most one call
\* of the refresh endpoint and re-sends the original request at most once,
\* also when the refresh call itself is answered with 401 while a refresh
\* token is stored.
C30_OneRefreshOneRetry ==
  client.refreshCalls <= 1 /\ client.retries <= 1

====
